---- MODULE Spec2Model ----
(***************************************************************************)
(* State-machine model of src/auto_checkin.py: KurobbsClient.start() with  *)
(* its three stages (check-in, community sign-in, forum task), the three   *)
(* counted loops of forum_task, _log, and main()'s notification and exit.  *)
(*                                                                         *)
(* Every remote call (make_request) has one of three outcomes:             *)
(*   "ok"   the body decodes into a Response whose success is true;        *)
(*   "fail" the body decodes into a Response whose success is False/None;  *)
(*   "err"  requests.post or Response.model_validate_json raises.          *)
(* Text is modelled as a sequence of tokens <<string, n>>: a literal of    *)
(* the source is <<text, 0>>, the msg field of the n-th envelope of a call *)
(* kind is <<kind, n>> with n >= 1.  The Chinese literals of the source    *)
(* are written as ASCII names.                                             *)
(***************************************************************************)
EXTENDS Integers, Sequences, FiniteSets, TLC

VARIABLES
    pc,               \* position of control in main()/start()/forum_task()
    result,           \* self.result: insertion-ordered dict, as a sequence of [key, val]
    exceptions,       \* self.exceptions: list of exception texts
    rsp_forumList,    \* local of forum_task
    rsp_getPostDetail,\* local of forum_task
    rsp_share_post,   \* local of forum_task
    rsp_like_post,    \* local of forum_task
    rsp_dislike_post, \* local of forum_task
    success,          \* local counter of forum_task
    i,                \* index of the current for loop
    like_post,        \* local flag of forum_task
    calls,            \* number of remote calls issued in this run, per kind
    order,            \* call kinds in the order of their first issue in this run
    sleeps,           \* number of time.sleep calls in this run, per loop
    notifications,    \* texts handed to send_notification in this run
    raised,           \* exception in flight / caught by main(): [type, text]
    exitCode,         \* -1 while running, 0 normal return of main, 1 sys.exit(1)
    run,              \* number of the current run of start()
    oks,              \* number of remote calls of this run that reported success, per kind
    always_ok,        \* every reply of every run so far reported success with the data read from it
    unlike_alternates,\* the unlike replies of this run so far alternate between success and failure
    liked,            \* the platform's view: the post currently carries our like
    budget            \* replies other than "ok" the gateway may still give; -1: no limit

vars == <<pc, result, exceptions, rsp_forumList, rsp_getPostDetail, rsp_share_post,
          rsp_like_post, rsp_dislike_post, success, i, like_post, calls, order,
          sleeps, notifications, raised, exitCode, run, oks, always_ok, unlike_alternates, liked, budget>>

locals == <<rsp_forumList, rsp_getPostDetail, rsp_share_post, rsp_like_post,
            rsp_dislike_post, success, i, like_post>>

(* ------------------------------ constants ------------------------------ *)

FetchN == 5
FetchK == 3
ShareN == 1
ShareK == 1
LikeN == 9
LikeK == 5

\* Largest number of posts a forum listing carries in the model.
MaxPosts == 5
\* Largest number of runs of start() in the re-run specification.
MaxRuns == 2
\* Number of replies other than "ok" the gateway gives in the re-run specification.
MaxFaults == 2

Outcome == {"ok", "fail", "err"}

Kinds == {"roles_checkin", "checkin", "sign_in", "roles_forum", "forum_list",
          "detail", "share", "like", "unlike"}

Loops == {"fetch", "share", "like"}

(* -------------------------------- text --------------------------------- *)

Lit(s) == <<s, 0>>

RECURSIVE Join(_, _)
\* sep.join(strs): strs is a sequence of texts
Join(strs, sep) ==
    IF strs = <<>> THEN <<>>
    ELSE IF Len(strs) = 1 THEN strs[1]
    ELSE strs[1] \o <<sep>> \o Join(Tail(strs), sep)

\* Response(code, msg, success, data): the fields the workflow reads
Response(ok, kind, n) == [success |-> ok, msg |-> <<kind, n>>]

NoRsp == [success |-> FALSE, msg |-> <<"unbound", 0>>]

\* KurobbsClientException(f'{failure_message}, {resp.msg}')
KurobbsClientException(failure_message, msg) ==
    <<Lit(failure_message), Lit(", "), msg>>

(* ------------------------------- result -------------------------------- *)

DictKeys(d) == {d[k].key : k \in 1..Len(d)}

\* DictSet as a list append: a key set again gets a second entry
DictSetAppend(d, key, val) == Append(d, [key |-> key, val |-> val])

\* d[key] = val on a Python dict: a new key goes last, an old key keeps its place
DictSet(d, key, val) ==
    IF key \in DictKeys(d)
    THEN [k \in 1..Len(d) |-> IF d[k].key = key THEN [key |-> key, val |-> val] ELSE d[k]]
    ELSE Append(d, [key |-> key, val |-> val])

DictValues(d) == [k \in 1..Len(d) |-> <<Lit(d[k].val)>>]

\* KurobbsClient.msg
Msg(d) == Join(DictValues(d), Lit(", ")) \o <<Lit("!")>>

\* AggregateText keeping only the last recorded failure
AggregateTextLast(excs) == IF excs = <<>> THEN <<>> ELSE excs[Len(excs)]

\* the text of the exception _log raises
AggregateText(excs) == Join(excs, Lit("; "))

NoException == [type |-> "none", text |-> <<>>]

(* ----------------------------- the gateway ------------------------------ *)

\* make_request: one POST of the given kind with outcome o
MakeRequest(kind, o) ==
    /\ calls' = [calls EXCEPT ![kind] = @ + 1]
    /\ order' = IF calls[kind] = 0 THEN Append(order, kind) ELSE order
    /\ oks' = IF o = "ok" THEN [oks EXCEPT ![kind] = @ + 1] ELSE oks
    /\ always_ok' = (always_ok /\ o = "ok")
    /\ unlike_alternates' = IF kind = "unlike"
                            THEN /\ unlike_alternates
                                 /\ o # "err"
                                 /\ calls[kind] > 0 => rsp_dislike_post.success # (o = "ok")
                            ELSE unlike_alternates
    /\ o # "ok" => budget # 0
    /\ budget' = IF o # "ok" /\ budget > 0 THEN budget - 1 ELSE budget

\* the envelope make_request returns for outcome o ("ok" or "fail")
Envelope(kind, o) == Response(o = "ok", kind, calls[kind] + 1)

\* an exception other than KurobbsClientException leaves start() and
\* reaches main()'s "except Exception"
Propagate ==
    /\ pc' = "except_other"
    /\ raised' = [type |-> "Exception", text |-> <<>>]

\* Sleep with the time.sleep statements left out
SleepDropped(loop, n) == sleeps' = sleeps

\* time.sleep(random.uniform(1.0, 2.0)) in the given loop
Sleep(loop, n) == sleeps' = [sleeps EXCEPT ![loop] = @ + n]

(* ------------------------- top-level stages ---------------------------- *)

\* ProcessSignAction storing the success message also when resp reports no success
ProcessSignActionAlways(action_name, success_message, failure_message, resp) ==
    [result |-> DictSet(result, action_name, success_message),
     exceptions |-> IF resp.success THEN exceptions
                    ELSE Append(exceptions, KurobbsClientException(failure_message, resp.msg))]

\* _process_sign_action after action_method() returned resp
ProcessSignAction(action_name, success_message, failure_message, resp) ==
    IF resp.success
    THEN [result |-> DictSet(result, action_name, success_message),
          exceptions |-> exceptions]
    ELSE [result |-> result,
          exceptions |-> Append(exceptions, KurobbsClientException(failure_message, resp.msg))]

\* StartNext going straight to _log once a stage has recorded a failure
StartNextStopOnFailure(stage, recorded) ==
    CASE stage = "forum_task" -> "log"
      [] stage # "forum_task" /\ recorded.exceptions # <<>> -> "log"
      [] stage = "checkin" /\ recorded.exceptions = <<>> -> "sign_in"
      [] stage = "sign_in" /\ recorded.exceptions = <<>> -> "roles_forum"

\* start(): the statement that follows a stage that returned, whatever it recorded
StartNext(stage, recorded) ==
    CASE stage = "checkin" -> "sign_in"
      [] stage = "sign_in" -> "roles_forum"
      [] stage = "forum_task" -> "log"

\* main() up to kurobbs = KurobbsClient(token, uid)
NewClient ==
    /\ pc = "roles_checkin"
    /\ result = <<>>
    /\ exceptions = <<>>
    /\ rsp_forumList = [success |-> FALSE, msg |-> <<"unbound", 0>>, posts |-> 0]
    /\ rsp_getPostDetail = NoRsp
    /\ rsp_share_post = NoRsp
    /\ rsp_like_post = NoRsp
    /\ rsp_dislike_post = NoRsp
    /\ success = 0
    /\ i = 0
    /\ like_post = FALSE
    /\ calls = [k \in Kinds |-> 0]
    /\ order = <<>>
    /\ sleeps = [l \in Loops |-> 0]
    /\ notifications = <<>>
    /\ raised = NoException
    /\ exitCode = -1
    /\ run = 1
    /\ oks = [k \in Kinds |-> 0]
    /\ always_ok = TRUE
    /\ unlike_alternates = TRUE
    /\ liked = FALSE

Init ==
    /\ NewClient
    /\ budget = -1

\* get_user_game_list(3) followed by user_game_list[0]; o = "fail" is an envelope
\* whose data is None or an empty list, so that the subscript raises
GetUserGameList(at, kind, next) ==
    /\ pc = at
    /\ \E o \in Outcome :
         /\ MakeRequest(kind, o)
         /\ IF o = "ok"
            THEN pc' = next /\ UNCHANGED raised
            ELSE Propagate
    /\ UNCHANGED <<result, exceptions, locals, sleeps, notifications, exitCode, run, liked>>

CheckinRoles == GetUserGameList("roles_checkin", "roles_checkin", "checkin")

ForumRoles == GetUserGameList("roles_forum", "roles_forum", "forum_list")

\* one _process_sign_action(...) statement of start()
SignAction(stage, success_message, failure_message) ==
    /\ pc = stage
    /\ \E o \in Outcome :
         /\ MakeRequest(stage, o)
         /\ IF o = "err"
            THEN Propagate /\ UNCHANGED <<result, exceptions>>
            ELSE LET rec == ProcessSignAction(stage, success_message, failure_message,
                                              Envelope(stage, o))
                 IN /\ result' = rec.result
                    /\ exceptions' = rec.exceptions
                    /\ pc' = StartNext(stage, rec)
                    /\ UNCHANGED raised
    /\ UNCHANGED <<locals, sleeps, notifications, exitCode, run, liked>>

Checkin == SignAction("checkin", "checkin_ok", "checkin_failed")

SignIn == SignAction("sign_in", "sign_in_ok", "sign_in_failed")

(* ------------------------------ forum_task ----------------------------- *)

\* LoopExit testing exhaustion before the number of successes
LoopExitExhaustFirst(s, idx, K, N) ==
    IF idx + 1 = N THEN (IF s > K THEN "break" ELSE "else")
    ELSE IF s >= K THEN "break"
    ELSE "continue"

\* LoopExit without the break: the number of successes is tested after N iterations
LoopExitAtEnd(s, idx, K, N) ==
    IF idx + 1 < N THEN "continue"
    ELSE IF s >= K THEN "break"
    ELSE "else"

\* LoopExit running on past the N-th iteration
LoopExitOneMore(s, idx, K, N) ==
    IF s >= K THEN "break"
    ELSE IF idx = N THEN "else"
    ELSE "continue"

\* LoopExit of a loop over range(0, N - 1)
LoopExitOneLess(s, idx, K, N) ==
    IF s >= K THEN "break"
    ELSE IF idx + 2 >= N THEN "else"
    ELSE "continue"

\* how an iteration of "for idx in range(0, N): ...; if s >= K: break / else: ..." ends
LoopExit(s, idx, K, N) ==
    IF s >= K THEN "break"
    ELSE IF idx + 1 = N THEN "else"
    ELSE "continue"

\* AfterSubstep without the return statements of the else clauses
AfterSubstepNoReturn(step, exit) ==
    CASE exit = "continue" -> step
      [] exit # "continue" /\ step = "forum_list" -> "fetch"
      [] exit # "continue" /\ step = "fetch" -> "share"
      [] exit # "continue" /\ step = "share" -> "like"
      [] exit # "continue" /\ step = "like" -> StartNext("forum_task", exit)

\* forum_task: where control goes when a sub-step ends with the given exit
AfterSubstep(step, exit) ==
    CASE exit = "continue" -> step
      [] exit = "else" -> StartNext("forum_task", exit)
      [] exit = "break" /\ step = "forum_list" -> "fetch"
      [] exit = "break" /\ step = "fetch" -> "share"
      [] exit = "break" /\ step = "share" -> "like"
      [] exit = "break" /\ step = "like" -> StartNext("forum_task", exit)

\* self.exceptions.append(KurobbsClientException(f'{failure_message}, {rsp.msg}'))
Failure(failure_message, rsp) ==
    Append(exceptions, KurobbsClientException(failure_message, rsp.msg))

\* rsp_forumList = self.get_forum_list() after its role lookup, and the test on it
ForumList ==
    /\ pc = "forum_list"
    /\ \E o \in Outcome, n \in 0..MaxPosts :
         /\ MakeRequest("forum_list", o)
         /\ o # "ok" => n = 0
         /\ IF o = "err"
            THEN Propagate /\ UNCHANGED <<result, exceptions, locals>>
            ELSE LET rsp == [success |-> o = "ok", msg |-> <<"forum_list", calls["forum_list"] + 1>>,
                             posts |-> n]
                     exit == IF rsp.success THEN "break" ELSE "else"
                 IN /\ rsp_forumList' = rsp
                    /\ result' = IF exit = "break"
                                 THEN DictSet(result, "get_forum_list", "get_forum_list_ok")
                                 ELSE result
                    /\ exceptions' = IF exit = "else"
                                     THEN Failure("get_forum_list_failed", rsp)
                                     ELSE exceptions
                    /\ success' = 0
                    /\ i' = 0
                    /\ pc' = AfterSubstep("forum_list", exit)
                    /\ UNCHANGED <<raised, rsp_getPostDetail, rsp_share_post, rsp_like_post,
                                   rsp_dislike_post, like_post>>
    /\ UNCHANGED <<sleeps, notifications, exitCode, run, liked>>

\* one iteration of the post-detail loop
Fetch ==
    /\ pc = "fetch"
    /\ i < FetchN
    /\ IF i >= rsp_forumList.posts
       THEN \* rsp_forumList.data["postList"][i] raises IndexError
            /\ Propagate
            /\ always_ok' = FALSE
            /\ UNCHANGED <<result, exceptions, locals, calls, order, sleeps, budget, oks,
                           unlike_alternates>>
       ELSE \E o \in Outcome :
            /\ MakeRequest("detail", o)
            /\ IF o = "err"
               THEN Propagate /\ UNCHANGED <<result, exceptions, locals, sleeps>>
               ELSE LET rsp == Envelope("detail", o)
                        s == IF rsp.success THEN success + 1 ELSE success
                        exit == LoopExit(s, i, FetchK, FetchN)
                    IN /\ rsp_getPostDetail' = rsp
                       /\ Sleep("fetch", 1)
                       /\ result' = IF exit = "break"
                                    THEN DictSet(result, "get_post_detail", "get_post_detail_ok")
                                    ELSE result
                       /\ exceptions' = IF exit = "else"
                                        THEN Failure("get_post_detail_failed", rsp)
                                        ELSE exceptions
                       /\ success' = IF exit = "break" THEN 0 ELSE s
                       /\ i' = IF exit = "continue" THEN i + 1 ELSE IF exit = "break" THEN 0 ELSE i
                       /\ pc' = AfterSubstep("fetch", exit)
                       /\ UNCHANGED <<raised, rsp_forumList, rsp_share_post, rsp_like_post,
                                      rsp_dislike_post, like_post>>
    /\ UNCHANGED <<notifications, exitCode, run, liked>>

\* one iteration of the share loop
Share ==
    /\ pc = "share"
    /\ i < ShareN
    /\ \E o \in Outcome :
         /\ MakeRequest("share", o)
         /\ IF o = "err"
            THEN Propagate /\ UNCHANGED <<result, exceptions, locals, sleeps>>
            ELSE LET rsp == Envelope("share", o)
                     s == IF rsp.success THEN success + 1 ELSE success
                     exit == LoopExit(s, i, ShareK, ShareN)
                 IN /\ rsp_share_post' = rsp
                    /\ Sleep("share", 1)
                    /\ result' = IF exit = "break"
                                 THEN DictSet(result, "share_post", "share_post_ok")
                                 ELSE result
                    /\ exceptions' = IF exit = "else"
                                     THEN Failure("share_post_failed", rsp)
                                     ELSE exceptions
                    /\ success' = IF exit = "break" THEN 0 ELSE s
                    /\ i' = IF exit = "continue" THEN i + 1 ELSE IF exit = "break" THEN 0 ELSE i
                    /\ like_post' = IF exit = "break" THEN TRUE ELSE like_post
                    /\ pc' = AfterSubstep("share", exit)
                    /\ UNCHANGED <<raised, rsp_forumList, rsp_getPostDetail, rsp_like_post,
                                   rsp_dislike_post>>
    /\ UNCHANGED <<notifications, exitCode, run, liked>>

\* EndLikeIteration without the return of the else clause: the success
\* message of line 193 is stored after the failure was appended
EndLikeIterationNoReturn(s, rsp) ==
    LET exit == LoopExit(s, i, LikeK, LikeN)
    IN /\ Sleep("like", 1)
       /\ result' = IF exit # "continue"
                    THEN DictSet(result, "rsp_like_post", "like_post_ok")
                    ELSE result
       /\ exceptions' = IF exit = "else"
                        THEN Append(exceptions,
                                    KurobbsClientException("like_post_failed", rsp.msg))
                        ELSE exceptions
       /\ success' = s
       /\ i' = IF exit = "continue" THEN i + 1 ELSE i
       /\ pc' = IF exit = "continue" THEN "like" ELSE "log"

\* the end of an iteration of the like loop: the sleep of line 186, the test
\* on success, and the else clause of the loop; s is the value of success and
\* rsp the value of rsp_like_post at that point
EndLikeIteration(s, rsp) ==
    LET exit == LoopExit(s, i, LikeK, LikeN)
    IN /\ Sleep("like", 1)
       /\ result' = IF exit = "break"
                    THEN DictSet(result, "rsp_like_post", "like_post_ok")
                    ELSE result
       /\ exceptions' = IF exit = "else"
                        THEN Failure("like_post_failed", rsp)
                        ELSE exceptions
       /\ success' = s
       /\ i' = IF exit = "continue" THEN i + 1 ELSE i
       /\ pc' = AfterSubstep("like", exit)

\* the first half of an iteration of the like loop: "if like_post:" issues the
\* like call; "if rsp_like_post.success:" then leads to the unlike call
Like ==
    /\ pc = "like"
    /\ i < LikeN
    /\ like_post
    /\ \E o \in Outcome :
         /\ MakeRequest("like", o)
         /\ liked' = IF o = "ok" THEN TRUE ELSE liked
         /\ IF o = "err"
            THEN Propagate /\ UNCHANGED <<result, exceptions, locals, sleeps>>
            ELSE LET rsp == Envelope("like", o)
                 IN /\ rsp_like_post' = rsp
                    /\ IF rsp.success
                       THEN /\ Sleep("like", 1)
                            /\ like_post' = FALSE
                            /\ pc' = "unlike"
                            /\ UNCHANGED <<result, exceptions, success, i>>
                       ELSE /\ EndLikeIteration(success, rsp)
                            /\ UNCHANGED like_post
                    /\ UNCHANGED <<raised, rsp_forumList, rsp_getPostDetail, rsp_share_post,
                                   rsp_dislike_post>>
    /\ UNCHANGED <<notifications, exitCode, run>>

\* the first half of an iteration entered with like_post false: no like call,
\* "if rsp_like_post.success:" reads the envelope of the earlier like call
LikeSkipped ==
    /\ pc = "like"
    /\ i < LikeN
    /\ ~like_post
    /\ IF rsp_like_post.success
       THEN /\ Sleep("like", 1)
            /\ like_post' = FALSE
            /\ pc' = "unlike"
            /\ UNCHANGED <<result, exceptions, success, i>>
       ELSE /\ EndLikeIteration(success, rsp_like_post)
            /\ UNCHANGED like_post
    /\ UNCHANGED <<raised, rsp_forumList, rsp_getPostDetail, rsp_share_post, rsp_like_post,
                   rsp_dislike_post, calls, order, oks, always_ok, unlike_alternates, notifications, exitCode, run, liked,
                   budget>>

\* AfterUnlike going back to the like call whatever the unlike call reported
AfterUnlikeRelike(rsp) ==
    [success |-> IF rsp.success THEN success + 1 ELSE success, like_post |-> TRUE]

\* AfterUnlike counting every unlike call that returned, successful or not
AfterUnlikeCountAll(rsp) ==
    [success |-> success + 1, like_post |-> IF rsp.success THEN TRUE ELSE like_post]

\* "if rsp_dislike_post.success: success += 1; like_post = True"
AfterUnlike(rsp) ==
    IF rsp.success
    THEN [success |-> success + 1, like_post |-> TRUE]
    ELSE [success |-> success, like_post |-> like_post]

\* the second half of an iteration: the unlike call and the end of the iteration
Unlike ==
    /\ pc = "unlike"
    /\ \E o \in Outcome :
         /\ MakeRequest("unlike", o)
         /\ liked' = IF o = "ok" THEN FALSE ELSE liked
         /\ IF o = "err"
            THEN Propagate /\ UNCHANGED <<result, exceptions, locals, sleeps>>
            ELSE LET rsp == Envelope("unlike", o)
                 IN /\ rsp_dislike_post' = rsp
                    /\ like_post' = AfterUnlike(rsp).like_post
                    /\ EndLikeIteration(AfterUnlike(rsp).success, rsp_like_post)
                    /\ UNCHANGED <<raised, rsp_forumList, rsp_getPostDetail, rsp_share_post,
                                   rsp_like_post>>
    /\ UNCHANGED <<notifications, exitCode, run>>

(* ---------------------------- _log and main ---------------------------- *)

\* LogRaises only when more than one failure was recorded
LogRaisesSeveral(excs) == Len(excs) > 1

\* _log: "if self.exceptions:"
LogRaises(excs) == excs # <<>>

\* self._log(), the last statement of start()
Log ==
    /\ pc = "log"
    /\ IF LogRaises(exceptions)
       THEN /\ raised' = [type |-> "KurobbsClientException", text |-> AggregateText(exceptions)]
            /\ pc' = "except_client"
       ELSE /\ pc' = "returned"
            /\ UNCHANGED raised
    /\ UNCHANGED <<result, exceptions, locals, calls, order, sleeps, notifications,
                   exitCode, run, oks, always_ok, unlike_alternates, liked, budget>>

\* main(): "if kurobbs.msg: send_notification(kurobbs.msg)" after start() returned
NotifySuccess ==
    /\ pc = "returned"
    /\ notifications' = IF Msg(result) # <<>>
                        THEN Append(notifications, Msg(result))
                        ELSE notifications
    /\ exitCode' = 0
    /\ pc' = "exit"
    /\ UNCHANGED <<result, exceptions, locals, calls, order, sleeps, raised, run, oks, always_ok, unlike_alternates, liked, budget>>

\* main(): "except KurobbsClientException as e"
NotifyFailure ==
    /\ pc = "except_client"
    /\ notifications' = Append(notifications, raised.text)
    /\ exitCode' = 1
    /\ pc' = "exit"
    /\ UNCHANGED <<result, exceptions, locals, calls, order, sleeps, raised, run, oks, always_ok, unlike_alternates, liked, budget>>

\* main(): "except Exception as e"
Unexpected ==
    /\ pc = "except_other"
    /\ exitCode' = 1
    /\ pc' = "exit"
    /\ UNCHANGED <<result, exceptions, locals, calls, order, sleeps, notifications,
                   raised, run, oks, always_ok, unlike_alternates, liked, budget>>

Next ==
    \/ CheckinRoles
    \/ Checkin
    \/ SignIn
    \/ ForumRoles
    \/ ForumList
    \/ Fetch
    \/ Share
    \/ Like
    \/ LikeSkipped
    \/ Unlike
    \/ Log
    \/ NotifySuccess
    \/ NotifyFailure
    \/ Unexpected

Spec == Init /\ [][Next]_vars

\* the run goes on as long as a statement is left: every remote call and
\* every sleep returns
SpecFair == Spec /\ WF_vars(Next)

(* ------------------------------- re-runs ------------------------------- *)

\* the state of a new call of start(): its locals and the observations of the run
NewRun ==
    /\ pc' = "roles_checkin"
    /\ rsp_forumList' = [success |-> FALSE, msg |-> <<"unbound", 0>>, posts |-> 0]
    /\ rsp_getPostDetail' = NoRsp
    /\ rsp_share_post' = NoRsp
    /\ rsp_like_post' = NoRsp
    /\ rsp_dislike_post' = NoRsp
    /\ success' = 0
    /\ i' = 0
    /\ like_post' = FALSE
    /\ calls' = [k \in Kinds |-> 0]
    /\ order' = <<>>
    /\ sleeps' = [l \in Loops |-> 0]
    /\ notifications' = <<>>
    /\ raised' = NoException
    /\ exitCode' = -1
    /\ run' = run + 1
    /\ oks' = [k \in Kinds |-> 0]
    /\ unlike_alternates' = TRUE

\* start() is called once more on the same KurobbsClient: __init__ does not
\* run again, self.result and self.exceptions are the ones of the earlier run
StartAgain ==
    /\ pc = "exit"
    /\ run < MaxRuns
    /\ NewRun
    /\ UNCHANGED <<result, exceptions, always_ok, liked, budget>>

\* main() runs once more: KurobbsClient(token, uid) builds a new client
MainAgain ==
    /\ pc = "exit"
    /\ run < MaxRuns
    /\ NewRun
    /\ result' = <<>>
    /\ exceptions' = <<>>
    /\ UNCHANGED <<always_ok, liked, budget>>

InitRerun ==
    /\ NewClient
    /\ budget = MaxFaults

NextRerun ==
    \/ Next
    \/ StartAgain
    \/ MainAgain

SpecRerun == InitRerun /\ [][NextRerun]_vars

TypeOK ==
    /\ pc \in {"roles_checkin", "checkin", "sign_in", "roles_forum", "forum_list", "fetch",
               "share", "like", "unlike", "log", "returned", "except_client",
               "except_other", "exit"}
    /\ success \in 0..LikeK
    /\ i \in 0..LikeN
    /\ exitCode \in {-1, 0, 1}

(* ------------------------ vocabulary of the claims --------------------- *)

HasKey(key) == key \in DictKeys(result)

\* the entries of self.exceptions made with the given failure message
Failures(failure_message) ==
    {k \in 1..Len(exceptions) : exceptions[k][1] = Lit(failure_message)}

ForumFailures ==
    Failures("get_forum_list_failed") \cup Failures("get_post_detail_failed")
        \cup Failures("share_post_failed") \cup Failures("like_post_failed")

IsPrefix(a, b) == Len(a) <= Len(b) /\ \A k \in 1..Len(a) : a[k] = b[k]

StageOrder == <<"roles_checkin", "checkin", "sign_in", "roles_forum", "forum_list",
                "detail", "share", "like", "unlike">>

\* no exception other than the aggregate failure has been raised
NoCrash == raised.type # "Exception"

\* control has left forum_task
AfterForumTask == pc \in {"log", "returned", "except_client", "exit"}

NoLikeCalls == calls["like"] = 0 /\ calls["unlike"] = 0

\* the listing call returned an envelope that does not report success
ListingFailed ==
    rsp_forumList.msg = <<"forum_list", 1>> /\ ~rsp_forumList.success

\* the FetchN-th post-detail call returned and fewer than FetchK calls succeeded
FetchExhausted ==
    rsp_getPostDetail.msg = <<"detail", FetchN>> /\ oks["detail"] < FetchK

\* the ShareN-th share call returned and fewer than ShareK calls succeeded
ShareFailed ==
    rsp_share_post.msg = <<"share", ShareN>> /\ oks["share"] < ShareK

\* the like loop has ended by its break or its else clause
LikeLoopEnded == AfterForumTask /\ calls["like"] >= 1 /\ NoCrash

(* --------------------------------- C1 ---------------------------------- *)

\* C1: the stages issue their calls in the order check-in, sign-in, forum
\* task; once check-in has returned an envelope, with success or without,
\* its outcome is recorded on its own (the success message under its key, or
\* one entry of exceptions carrying its msg) and the sign-in call is the next
\* call or has been issued; once sign-in has returned, the same holds of its
\* outcome and of the first call of get_forum_list().
C1_StagesIndependent ==
    /\ IsPrefix(order, StageOrder)
    /\ \A st \in {"checkin", "sign_in"} :
         LET fm == IF st = "checkin" THEN "checkin_failed" ELSE "sign_in_failed"
             next == IF st = "checkin" THEN "sign_in" ELSE "roles_forum"
             returned == calls[st] = 1 /\ (NoCrash \/ calls[next] = 1)
         IN /\ HasKey(st) \/ Failures(fm) # {} => pc = next \/ calls[next] = 1
            /\ returned /\ oks[st] = 1 => HasKey(st) /\ Failures(fm) = {}
            /\ returned /\ oks[st] = 0 =>
                 /\ ~HasKey(st)
                 /\ Cardinality(Failures(fm)) = 1
                 /\ \A k \in Failures(fm) : exceptions[k][3] = <<st, 1>>
            /\ calls[st] = 0 => ~HasKey(st) /\ Failures(fm) = {}

\* check-in and sign-in both returned without success and the listing call was issued
C1_Witness ==
    /\ pc = "exit"
    /\ Failures("checkin_failed") # {}
    /\ Failures("sign_in_failed") # {}
    /\ calls["forum_list"] = 1

(* --------------------------------- C2 ---------------------------------- *)

\* C2: when main() ends, send_notification has been called exactly once, with
\* the summary (kurobbs.msg) or with the text of the aggregate failure,
\* whatever the outcomes of the remote calls were.
C2_ExactlyOneNotification ==
    pc = "exit" =>
        /\ Len(notifications) = 1
        /\ \/ notifications[1] = Msg(result) /\ exceptions = <<>>
           \/ notifications[1] = AggregateText(exceptions) /\ exceptions # <<>>

(* --------------------------------- C3 ---------------------------------- *)

\* C3: a remote call that raises never raises past its stage: the only
\* exception that leaves start() is the aggregate failure of _log, and a run
\* that has ended has run check-in, sign-in and the forum task.
C3_NoRaisePastStage ==
    /\ raised.type \in {"none", "KurobbsClientException"}
    /\ pc = "exit" =>
         calls["checkin"] = 1 /\ calls["sign_in"] = 1 /\ calls["roles_forum"] = 1

(* --------------------------------- C4 ---------------------------------- *)

\* C4: if the listing call does not report success, no post-detail, share,
\* like or unlike call is issued; if the post-detail loop used its FetchN
\* attempts with fewer than FetchK successes, no share, like or unlike call is
\* issued; if the share attempt does not report success, no like or unlike
\* call is issued; in each case forum_task has returned and exceptions holds
\* exactly one entry of the forum task.
C4_ForumSubstepsDependent ==
    /\ ListingFailed =>
         /\ calls["detail"] = 0 /\ calls["share"] = 0 /\ NoLikeCalls
         /\ AfterForumTask
         /\ Cardinality(ForumFailures) = 1
         /\ Cardinality(Failures("get_forum_list_failed")) = 1
    /\ FetchExhausted =>
         /\ calls["share"] = 0 /\ NoLikeCalls
         /\ AfterForumTask
         /\ Cardinality(ForumFailures) = 1
         /\ Cardinality(Failures("get_post_detail_failed")) = 1
    /\ ShareFailed =>
         /\ NoLikeCalls
         /\ AfterForumTask
         /\ Cardinality(ForumFailures) = 1
         /\ Cardinality(Failures("share_post_failed")) = 1

\* a run that ended after the post-detail loop was exhausted
C4_Witness == pc = "exit" /\ FetchExhausted /\ calls["detail"] = FetchN

(* --------------------------------- C5 ---------------------------------- *)

\* check-in returned without success, sign-in succeeded and every sub-step of
\* the forum task reached its number of successes
CheckinOnlyFailed ==
    /\ pc = "exit"
    /\ calls["checkin"] = 1 /\ oks["checkin"] = 0
    /\ oks["sign_in"] = 1
    /\ oks["forum_list"] = 1
    /\ oks["detail"] = FetchK
    /\ oks["share"] = ShareK
    /\ oks["unlike"] = LikeK

\* C5: in a run where only check-in failed, the summary is the sign-in text
\* and the four forum texts, without a check-in text, exceptions has exactly
\* one entry, and the aggregate failure (which is what is notified) is the
\* check-in failure alone.
C5_OnlyCheckinFailure ==
    CheckinOnlyFailed =>
        /\ Msg(result) = <<Lit("sign_in_ok"), Lit(", "), Lit("get_forum_list_ok"), Lit(", "),
                           Lit("get_post_detail_ok"), Lit(", "), Lit("share_post_ok"),
                           Lit(", "), Lit("like_post_ok"), Lit("!")>>
        /\ Len(exceptions) = 1
        /\ raised.type = "KurobbsClientException"
        /\ raised.text = <<Lit("checkin_failed"), Lit(", "), <<"checkin", 1>>>>
        /\ notifications = <<raised.text>>

\* such a run, with a failed post-detail call and a failed unlike call in it
C5_Witness ==
    CheckinOnlyFailed /\ calls["detail"] > FetchK /\ calls["unlike"] > LikeK

(* --------------------------------- C6 ---------------------------------- *)

\* C6: in the post-detail loop (K = FetchK, N = FetchN) and in the share loop
\* (K = ShareK, N = ShareN) there are never more than K successes nor more
\* than N attempts; while the loop goes on, successes < K and attempts < N;
\* the sub-step counts as succeeded exactly when K calls succeeded, and then
\* the last attempt is the one that succeeded, also when it is the N-th;
\* the sub-step is a decisive failure exactly when the N-th attempt returned
\* with successes < K.
C6_BoundedRetry ==
    /\ oks["detail"] <= FetchK /\ calls["detail"] <= FetchN
    /\ pc = "fetch" => oks["detail"] < FetchK /\ calls["detail"] < FetchN
                       /\ calls["detail"] = i /\ success = oks["detail"]
    /\ HasKey("get_post_detail") <=> oks["detail"] = FetchK
    /\ oks["detail"] = FetchK =>
         rsp_getPostDetail = Response(TRUE, "detail", calls["detail"])
    /\ Failures("get_post_detail_failed") # {} <=> FetchExhausted
    /\ FetchExhausted => calls["detail"] = FetchN
    /\ oks["share"] <= ShareK /\ calls["share"] <= ShareN
    /\ pc = "share" => oks["share"] < ShareK /\ calls["share"] < ShareN
                       /\ calls["share"] = i /\ success = oks["share"]
    /\ HasKey("share_post") <=> oks["share"] = ShareK
    /\ oks["share"] = ShareK =>
         rsp_share_post = Response(TRUE, "share", calls["share"])
    /\ Failures("share_post_failed") # {} <=> ShareFailed
    /\ ShareFailed => calls["share"] = ShareN

\* the FetchK-th success came with the FetchN-th attempt, and the share succeeded
C6_Witness ==
    /\ calls["detail"] = FetchN
    /\ oks["detail"] = FetchK
    /\ HasKey("get_post_detail")
    /\ HasKey("share_post")

(* --------------------------------- C7 ---------------------------------- *)

\* the like loop has ended, every like call succeeded, no unlike call did
UnlikeNeverSucceeds ==
    /\ LikeLoopEnded
    /\ oks["like"] = calls["like"]
    /\ oks["unlike"] = 0

\* C7: if every like call succeeds and no unlike call succeeds, the like loop
\* runs exactly LikeN iterations (one unlike call in each), ends with
\* success = 0, appends one failure entry and stores no 'rsp_like_post'
\* message.
C7_UnlikeNeverSucceeds ==
    UnlikeNeverSucceeds =>
        /\ i = LikeN - 1
        /\ calls["unlike"] = LikeN
        /\ success = 0
        /\ Cardinality(Failures("like_post_failed")) = 1
        /\ Cardinality(ForumFailures) = 1
        /\ ~HasKey("rsp_like_post")

C7_Witness == UnlikeNeverSucceeds /\ pc = "exit"

(* --------------------------------- C8 ---------------------------------- *)

\* the like loop has ended, every like call succeeded and the unlike calls
\* succeeded on every other call
UnlikeEveryOther ==
    /\ LikeLoopEnded
    /\ oks["like"] = calls["like"]
    /\ calls["unlike"] >= 2
    /\ unlike_alternates

\* the loop ended by its else clause after LikeN iterations
LikeExhausted ==
    /\ i = LikeN - 1
    /\ success < LikeK
    /\ Cardinality(Failures("like_post_failed")) = 1
    /\ ~HasKey("rsp_like_post")

\* C8 as stated: with like always succeeding and unlike succeeding on every
\* other call, the loop reaches success = LikeK after exactly 10 calls (5 like
\* calls and 5 unlike calls, all successful), or is exhausted after LikeN
\* iterations with success < LikeK.
C8_TenAttempts ==
    UnlikeEveryOther =>
        \/ /\ success = LikeK
           /\ calls["like"] + calls["unlike"] = 10
        \/ LikeExhausted

\* C8 as amended: the loop always runs LikeN iterations with 5 like calls and
\* 9 unlike calls; it reaches success = LikeK in the 9th iteration when the
\* first unlike call succeeds (5 of the 9 unlike calls succeed), and is
\* exhausted with success = 4 when the first unlike call fails.
C8_NineIterations ==
    UnlikeEveryOther =>
        /\ i = LikeN - 1
        /\ calls["like"] = 5
        /\ calls["unlike"] = 9
        /\ \/ /\ success = LikeK
              /\ oks["unlike"] = 5
              /\ HasKey("rsp_like_post")
              /\ Failures("like_post_failed") = {}
           \/ /\ LikeExhausted
              /\ success = 4

\* the run in which the first unlike call succeeds
C8_Witness == UnlikeEveryOther /\ success = LikeK /\ pc = "exit"

(* --------------------------------- C9 ---------------------------------- *)

\* C9: the aggregate failure is raised only by _log, after the check-in call,
\* the sign-in call and the first call of the forum task have been issued,
\* and control never goes back to a stage after it; _log raises exactly when
\* exceptions is not empty; the text is the entries of exceptions in the
\* order they were recorded, with "; " between them.
C9_AggregateFailure ==
    /\ raised.type = "KurobbsClientException" =>
         /\ pc \in {"except_client", "exit"}
         /\ calls["checkin"] = 1 /\ calls["sign_in"] = 1 /\ calls["roles_forum"] = 1
         /\ exceptions # <<>>
         /\ Len(raised.text) = 4 * Len(exceptions) - 1
         /\ \A k \in 1..Len(exceptions) :
              /\ SubSeq(raised.text, 4 * k - 3, 4 * k - 1) = exceptions[k]
              /\ k < Len(exceptions) => raised.text[4 * k] = Lit("; ")
    /\ pc \in {"returned", "except_client"} \/ (pc = "exit" /\ NoCrash) =>
         (raised.type = "KurobbsClientException" <=> exceptions # <<>>)
    /\ ~AfterForumTask => raised.type # "KurobbsClientException"

\* the aggregate failure of a run in which all three stages failed
C9_Witness ==
    /\ pc = "exit"
    /\ raised.type = "KurobbsClientException"
    /\ Len(exceptions) = 3

(* --------------------------------- C10 --------------------------------- *)

\* C10: when every reply of every run so far reported success, a run that
\* has ended has sent the summary with the entries check-in, sign-in, forum
\* listing, post detail, share, like in this order, in the first run and in
\* every later one, on the same client or on a new one.
C10_SummaryFixedOrder ==
    pc = "exit" /\ always_ok =>
        notifications = << <<Lit("checkin_ok"), Lit(", "), Lit("sign_in_ok"), Lit(", "),
                             Lit("get_forum_list_ok"), Lit(", "), Lit("get_post_detail_ok"),
                             Lit(", "), Lit("share_post_ok"), Lit(", "), Lit("like_post_ok"),
                             Lit("!")>> >>

\* a second run of start() on the same client has ended, all replies successful
C10_Witness ==
    pc = "exit" /\ always_ok /\ run >= 2 /\ Len(result) > 0 /\ exitCode = 0

(* --------------------------------- C11 --------------------------------- *)

\* C11: main() has ended with exit status 1 exactly when the aggregate
\* failure or another exception was raised, and with status 0 only if no
\* stage failure was recorded and nothing was raised; before the end no exit
\* status is set.
C11_ExitStatus ==
    /\ pc = "exit" =>
         /\ exitCode \in {0, 1}
         /\ exitCode = 1 <=> raised.type \in {"KurobbsClientException", "Exception"}
         /\ exitCode = 0 => exceptions = <<>> /\ raised = NoException
         /\ exceptions # <<>> => exitCode = 1
    /\ pc # "exit" => exitCode = -1

\* a run that recorded a stage failure and then ended on an unexpected error
C11_Witness ==
    /\ pc = "exit"
    /\ exitCode = 1
    /\ raised.type = "Exception"
    /\ exceptions # <<>>

(* --------------------------------- C12 --------------------------------- *)

\* C12: a like call is issued only while the post does not carry our like
\* (no like call between a successful like and the next successful unlike),
\* and an iteration that starts while the like is still in place issues no
\* like call and goes on to the unlike call.
C12_NoDuplicateLike ==
    [][/\ calls["like"]' # calls["like"] => ~liked
       /\ pc = "like" /\ liked =>
            /\ calls["like"]' = calls["like"]
            /\ pc' \in {"unlike", "except_other"}]_vars

\* an unlike call has failed and the loop is about to issue unlike again
C12_Witness ==
    /\ pc = "unlike"
    /\ calls["like"] = 1
    /\ calls["unlike"] >= 1
    /\ ~rsp_dislike_post.success
    /\ liked

(* --------------------------------- C13 --------------------------------- *)

\* this step issues a like call that returns without success
LikeFailsInStep ==
    /\ calls["like"]' = calls["like"] + 1
    /\ oks["like"]' = oks["like"]
    /\ pc' # "except_other"

\* C13: an iteration whose like call does not report success issues no unlike
\* call, keeps like_post true (the next iteration issues like again), uses up
\* one iteration and leaves success unchanged; in the like loop success
\* changes only by one, in a step whose unlike call succeeds.
C13_FailedLike ==
    [][/\ LikeFailsInStep =>
            /\ calls["unlike"]' = calls["unlike"]
            /\ pc' # "unlike"
            /\ like_post'
            /\ success' = success
            /\ \/ pc' = "like" /\ i' = i + 1
               \/ pc' = "log" /\ i = LikeN - 1
       /\ pc \in {"like", "unlike"} /\ success' # success =>
            /\ success' = success + 1
            /\ oks["unlike"]' = oks["unlike"] + 1]_vars

\* after a failed like call the loop is at the top of its next iteration
C13_Witness ==
    /\ pc = "like"
    /\ i >= 1
    /\ calls["like"] = i
    /\ oks["like"] = 0
    /\ calls["unlike"] = 0
    /\ like_post

(* --------------------------------- C14 --------------------------------- *)

\* the number of calls of a kind that returned an envelope, rsp being the
\* local that holds the last envelope of that kind
Returned(kind, rsp) ==
    IF calls[kind] > 0 /\ rsp.msg # <<kind, calls[kind]>>
    THEN calls[kind] - 1
    ELSE calls[kind]

\* the number of iterations of the like loop that ran to their end
LikeIterationsDone ==
    IF calls["like"] = 0 THEN 0
    ELSE IF LikeLoopEnded THEN i + 1
    ELSE i

\* C14 as stated: in a loop that reached its number of successes, the
\* attempt that reached it is not followed by a sleep, so the loop slept one
\* time less than it made attempts.
C14_NoSleepAtThreshold ==
    /\ HasKey("get_post_detail") => sleeps["fetch"] = calls["detail"] - 1
    /\ HasKey("share_post") => sleeps["share"] = calls["share"] - 1
    /\ HasKey("rsp_like_post") => sleeps["like"] = (i + 1) - 1 + calls["unlike"]

\* C14 as amended: a sleep follows every attempt that returned, the one that
\* reaches the number of successes included (the test that breaks the loop
\* comes after the sleep); the like loop sleeps once more between a
\* successful like and the unlike call.
C14_SleepAfterEveryAttempt ==
    /\ sleeps["fetch"] = Returned("detail", rsp_getPostDetail)
    /\ sleeps["share"] = Returned("share", rsp_share_post)
    /\ sleeps["like"] = LikeIterationsDone + calls["unlike"]
                          + (IF pc = "unlike" THEN 1 ELSE 0)
    /\ HasKey("get_post_detail") => sleeps["fetch"] = calls["detail"]
    /\ HasKey("share_post") => sleeps["share"] = calls["share"]
    /\ HasKey("rsp_like_post") => sleeps["like"] = (i + 1) + calls["unlike"]

\* a run in which all three loops reached their number of successes
C14_Witness == pc = "exit" /\ HasKey("rsp_like_post") /\ sleeps["like"] > 2 * LikeK

(* --------------------------------- C15 --------------------------------- *)

\* C15: the failure entry of an exhausted loop carries the msg of the last
\* envelope received in that loop; in the like loop that is the envelope of
\* the last unlike call when the last iteration made one (it did exactly
\* when the last like envelope reports success), else that of the last like
\* call.
C15_LastEnvelopeMessage ==
    /\ \A k \in Failures("get_post_detail_failed") :
         exceptions[k][3] = <<"detail", calls["detail"]>>
    /\ \A k \in Failures("share_post_failed") :
         exceptions[k][3] = <<"share", calls["share"]>>
    /\ \A k \in Failures("like_post_failed") :
         exceptions[k][3] = IF rsp_like_post.success
                            THEN <<"unlike", calls["unlike"]>>
                            ELSE <<"like", calls["like"]>>

(* --------------------------------- C16 --------------------------------- *)

\* the listing reported success with fewer posts than the loop indexes, every
\* post it carries was fetched, fewer than FetchK fetches succeeded, and the
\* run has ended
ShortListing ==
    /\ pc = "exit"
    /\ rsp_forumList.success
    /\ rsp_forumList.posts < FetchN
    /\ calls["detail"] = rsp_forumList.posts
    /\ Returned("detail", rsp_getPostDetail) = calls["detail"]
    /\ oks["detail"] < FetchK

\* C16: a listing with too few posts ends the forum task as one recorded
\* failure; the run reaches _log, raises the aggregate failure and sends its
\* one notification.
C16_ShortListingRecorded ==
    ShortListing =>
        /\ Cardinality(ForumFailures) = 1
        /\ raised.type = "KurobbsClientException"
        /\ Len(notifications) = 1

(* --------------------------------- C17 --------------------------------- *)

\* the like loop ended by its else clause
LikeFailedDecisively == LikeLoopEnded /\ oks["unlike"] < LikeK

\* the entry of self.result for a stage whose call succeeded
Entry(stage, message) ==
    IF oks[stage] >= 1 THEN <<[key |-> stage, val |-> message]>> ELSE <<>>

\* C17: when the like sub-step fails decisively, result holds the messages of
\* check-in and sign-in (each if it succeeded) and of the listing, the
\* post-detail fetch and the share, in this order and nothing else; exactly
\* one failure entry is appended for the like sub-step, the only entry of the
\* forum task.
C17_LikeFailureOnlyOmits ==
    LikeFailedDecisively =>
        /\ result = Entry("checkin", "checkin_ok") \o Entry("sign_in", "sign_in_ok")
                      \o <<[key |-> "get_forum_list", val |-> "get_forum_list_ok"],
                           [key |-> "get_post_detail", val |-> "get_post_detail_ok"],
                           [key |-> "share_post", val |-> "share_post_ok"]>>
        /\ Cardinality(Failures("like_post_failed")) = 1
        /\ Cardinality(ForumFailures) = 1
        /\ Len(exceptions) = 1 + Cardinality(Failures("checkin_failed"))
                               + Cardinality(Failures("sign_in_failed"))

\* a run whose only failure is the like sub-step
C17_Witness ==
    /\ pc = "exit"
    /\ LikeFailedDecisively
    /\ Len(result) = 5
    /\ Len(exceptions) = 1

(* --------------------------------- C18 --------------------------------- *)

\* the current run has left start() and every remote call of it reported success
RunAllOk ==
    /\ pc \in {"returned", "except_client", "except_other", "exit"}
    /\ \A k \in Kinds : oks[k] = calls[k]

\* C18: what an earlier run recorded is not visible to a later run: a run
\* whose calls all succeeded leaves start() with exceptions empty and without
\* the aggregate failure, on a new client and on the client of the earlier
\* run alike.
C18_NoCarryOver ==
    RunAllOk =>
        /\ exceptions = <<>>
        /\ raised.type # "KurobbsClientException"

(* --------------------------------- C19 --------------------------------- *)

\* C19: when control is at the share loop or the like loop, or a share, like
\* or unlike call has been issued, rsp_getPostDetail is the envelope of the
\* last post-detail call and reports success.
C19_DetailEnvelopeSucceeded ==
    \/ pc \in {"share", "like", "unlike"}
    \/ calls["share"] > 0 \/ calls["like"] > 0 \/ calls["unlike"] > 0
    => /\ rsp_getPostDetail = Response(TRUE, "detail", calls["detail"])
       /\ oks["detail"] = FetchK

\* an unlike call was issued after a post-detail loop with a failed fetch in it
C19_Witness ==
    /\ calls["unlike"] >= 1
    /\ calls["detail"] = FetchN
    /\ oks["detail"] = FetchK

(* --------------------------------- C20 --------------------------------- *)

\* C20: a run issues at most FetchN post-detail calls, ShareN share calls,
\* LikeN like calls, LikeN unlike calls and 14 like and unlike calls together,
\* and it ends.
C20_BoundedAndTerminates ==
    /\ [](/\ calls["detail"] <= FetchN
          /\ calls["share"] <= ShareN
          /\ calls["like"] <= LikeN
          /\ calls["unlike"] <= LikeN
          /\ calls["like"] + calls["unlike"] <= 14)
    /\ <>(pc = "exit")

\* a run that ended after 14 like and unlike calls
C20_Witness == pc = "exit" /\ calls["like"] + calls["unlike"] = 14

====
